---- MODULE Spec2Model ----
(***************************************************************************)
(* Model of app/main.py: the module start-up, the three FastAPI handlers   *)
(* (GET /, POST /upload/, POST /ask/) and the helpers they call.           *)
(*                                                                         *)
(* The handlers are coroutines on one event loop.  upload_files suspends   *)
(* only at `await file.read()`; every other call it makes is a blocking    *)
(* call, and ask_question and root contain no await at all.  An action of  *)
(* the model is therefore one run of a handler from one suspension point   *)
(* to the next.  The external collaborators (blob store, vector store,     *)
(* loaders, splitter, generative model) are opaque: each call either       *)
(* succeeds or raises, chosen nondeterministically.                        *)
(*                                                                         *)
(* Strings the code inspects (file names, extensions, the prompt context)  *)
(* are sequences of one-character strings.                                 *)
(***************************************************************************)
EXTENDS Integers, Sequences, FiniteSets, TLC

\* ---------------------------------------------------------------- bounds
MaxFiles == 3
MaxChunks == 1
PreChunks == 7
MaxLen == 3

\* ------------------------------------------------------ program constants
SearchK == 6
StatusError == 500

VARIABLES
    env,              \* os.environ: the three required settings
    mainpc,           \* position of the module-level start-up code
    clients,          \* module globals initialised so far
    rq,               \* the request each handler invocation was given
    pc,               \* position of each handler invocation
    idx,              \* upload_files: index of the file being read
    total_chunks,     \* upload_files: local total_chunks
    processed_files,  \* upload_files: local processed_files
    response,         \* responses sent for each request
    calls,            \* calls each request made to the collaborators
    created,          \* temporary files each request created
    tmpfs,            \* temporary files present on the local filesystem
    blobs,            \* objects in the bucket
    chunks,           \* documents in the vector store
    fresh,            \* source of unique temp names and uuid4 values
    p_query,          \* generate_rag_prompt: argument query
    p_context,        \* generate_rag_prompt: argument context
    p_prompt,         \* generate_rag_prompt: returned prompt
    p_pc              \* generate_rag_prompt: called or not

sysvars == <<env, mainpc, clients, rq, pc, idx, total_chunks, processed_files,
             response, calls, created, tmpfs, blobs, chunks, fresh>>
pvars == <<p_query, p_context, p_prompt, p_pc>>
vars == <<env, mainpc, clients, rq, pc, idx, total_chunks, processed_files,
          response, calls, created, tmpfs, blobs, chunks, fresh,
          p_query, p_context, p_prompt, p_pc>>

\* the handler invocations that may be in progress at the same time
Reqs == {1, 2}

Min(a, b) == IF a < b THEN a ELSE b

\* ------------------------------------------------------------ characters
Upper == <<"A","B","C","D","E","F","G","H","I","J","K","L","M",
           "N","O","P","Q","R","S","T","U","V","W","X","Y","Z">>
LowerCase == <<"a","b","c","d","e","f","g","h","i","j","k","l","m",
               "n","o","p","q","r","s","t","u","v","w","x","y","z">>

\* str.lower() on one character
LowerChar(c) ==
    IF \E i \in 1..Len(Upper) : Upper[i] = c
    THEN LowerCase[CHOOSE i \in 1..Len(Upper) : Upper[i] = c]
    ELSE c

\* str.lower()
lower(s) == [i \in 1..Len(s) |-> LowerChar(s[i])]

\* str.rfind(ch): 0 when absent (positions are 1-based)
RFind(s, ch) ==
    IF \E i \in 1..Len(s) : s[i] = ch
    THEN CHOOSE i \in 1..Len(s) : s[i] = ch /\ \A j \in (i+1)..Len(s) : s[j] # ch
    ELSE 0

\* os.path.splitext: <<root, ext>>; leading dots of the last component
\* belong to the root
splitext(p) ==
    LET sepIndex == RFind(p, "/")
        dotIndex == RFind(p, ".")
    IN  IF dotIndex > sepIndex
           /\ \E k \in (sepIndex+1)..(dotIndex-1) : p[k] # "."
        THEN <<SubSeq(p, 1, dotIndex-1), SubSeq(p, dotIndex, Len(p))>>
        ELSE <<p, <<>>>>

\* keys of SUPPORTED_FORMATS
SUPPORTED_FORMATS ==
    { <<".","p","d","f">>, <<".","d","o","c","x">>, <<".","d","o","c">>,
      <<".","p","p","t","x">>, <<".","p","p","t">>, <<".","c","s","v">>,
      <<".","j","s","o","n">>, <<".","t","x","t">> }

\* ext = os.path.splitext(name)[1].lower()
ExtOf(name) == lower(splitext(name)[2])

\* get_file_loader: the loader's key, or the ValueError
get_file_loader(file_path) ==
    LET ext == ExtOf(file_path)
    IN  IF ext \notin SUPPORTED_FORMATS
        THEN [raised |-> TRUE, loader |-> <<>>]
        ELSE [raised |-> FALSE, loader |-> ext]

\* ---------------------------------------------------------------- inputs
NoneVal == "<None>"
EnvValues == {NoneVal, "", "set"}

FileNames ==
    { <<"a",".","t","x","t">>,        \* supported
      <<"b",".","P","d","F">>,        \* supported, mixed case
      <<"c",".","e","x","e">>,        \* unsupported
      <<".","t","x","t">> }           \* dot file: no extension

RECURSIVE SeqsUpTo(_, _)
SeqsUpTo(S, n) ==
    IF n = 0 THEN {<<>>}
    ELSE LET shorter == SeqsUpTo(S, n-1)
         IN  shorter \cup {Append(q, x) : q \in shorter, x \in S}

Batches == SeqsUpTo(FileNames, MaxFiles) \ {<<>>}
Questions == { <<"q","?">>, <<"'","q","\n">> }
Answers == {"answer-1", "answer-2"}

NoReq == [kind |-> "none"]
UploadRequests == {[kind |-> "upload", files |-> b] : b \in Batches}

\* the batches used when two requests run concurrently
SampleBatches ==
    { << <<"a",".","t","x","t">> >>,
      << <<"c",".","e","x","e">>, <<"b",".","P","d","F">> >>,
      << <<"a",".","t","x","t">>, <<"b",".","P","d","F">> >> }

Requests ==
    {[kind |-> "upload", files |-> b] : b \in SampleBatches}
    \cup {[kind |-> "ask", question |-> q] : q \in Questions}
    \cup {[kind |-> "root"]}

\* ------------------------------------------------------------- responses
\* a handler's return value, rendered by FastAPI with status 200
JSONResponse(content) == [status |-> 200, kind |-> "json", body |-> content]

\* raise HTTPException(status_code=..., detail=...), rendered by FastAPI's
\* handler for HTTPException as {"detail": detail}
HTTPException(status_code, detail) ==
    [status |-> status_code, kind |-> "detail", detail |-> detail]

\* an exception that leaves the handler: Starlette's ServerErrorMiddleware
\* answers with the plain text "Internal Server Error"
Unhandled == [status |-> StatusError, kind |-> "text", text |-> "Internal Server Error"]

\* str(e) of an HTTPException: "<status_code>: <detail>"
StrHTTPException(e) == <<ToString(e.status), ": ">> \o e.detail

Call(op, arg) == [op |-> op, arg |-> arg]

\* ------------------------------------------------------------- start-up
\* `is not None` in place of truthiness: "" passes
NotNone(v) == v # NoneVal

\* bool(v) of an environment value: None and "" are false
Truthy(v) == v # NoneVal /\ v # ""

\* all([GEMINI_API_KEY, BUCKET_NAME, DB_CONNECTION])
ConfigComplete(e) ==
    Truthy(e.GEMINI_API_KEY) /\ Truthy(e.GCS_BUCKET_NAME) /\ Truthy(e.DATABASE_URL)

\* lines 25-30: read the environment, raise ValueError when a value is missing
CheckConfig ==
    /\ mainpc = "start"
    /\ mainpc' = IF ConfigComplete(env) THEN "configured" ELSE "failed"
    /\ UNCHANGED <<env, clients, rq, pc, idx, total_chunks, processed_files,
                   response, calls, created, tmpfs, blobs, chunks, fresh>>
    /\ UNCHANGED pvars

\* lines 33-35: genai.configure, storage.Client(), bucket
InitServices ==
    /\ mainpc = "configured"
    /\ \E ok \in BOOLEAN :
         IF ok
         THEN /\ clients' = clients \cup {"genai", "storage_client", "bucket"}
              /\ mainpc' = "services"
         ELSE /\ clients' = clients \cup {"genai"}
              /\ mainpc' = "failed"
    /\ UNCHANGED <<env, rq, pc, idx, total_chunks, processed_files,
                   response, calls, created, tmpfs, blobs, chunks, fresh>>
    /\ UNCHANGED pvars

\* lines 38-53: spacy.load, with one download and reload when it fails,
\* then the FastAPI app; uvicorn serves once the module has loaded
LoadSpacyAndServe ==
    /\ mainpc = "services"
    /\ \E first \in BOOLEAN, second \in BOOLEAN :
         IF first \/ second
         THEN /\ clients' = clients \cup {"nlp", "app"}
              /\ mainpc' = "serving"
         ELSE /\ clients' = clients
              /\ mainpc' = "failed"
    /\ UNCHANGED <<env, rq, pc, idx, total_chunks, processed_files,
                   response, calls, created, tmpfs, blobs, chunks, fresh>>
    /\ UNCHANGED pvars

\* a request reaches the served app
Accept(r, inputs) ==
    /\ mainpc = "serving"
    /\ pc[r] = "idle"
    /\ \A q \in Reqs : q < r => pc[q] # "idle"
    /\ \E input \in inputs : rq' = [rq EXCEPT ![r] = input]
    /\ pc' = [pc EXCEPT ![r] = "received"]
    /\ UNCHANGED <<env, mainpc, clients, idx, total_chunks, processed_files,
                   response, calls, created, tmpfs, blobs, chunks, fresh>>
    /\ UNCHANGED pvars

Receive(r) == Accept(r, Requests)

\* lines 136-138: GET /
root(r) ==
    /\ pc[r] = "received"
    /\ rq[r].kind = "root"
    /\ response' = [response EXCEPT ![r] =
           Append(@, JSONResponse([message |-> "Enhanced RAG API is running"]))]
    /\ pc' = [pc EXCEPT ![r] = "done"]
    /\ UNCHANGED <<env, mainpc, clients, rq, idx, total_chunks, processed_files,
                   calls, created, tmpfs, blobs, chunks, fresh>>
    /\ UNCHANGED pvars

\* ------------------------------------------------- generate_rag_prompt
\* str.replace(old, new) for a one-character old
RECURSIVE Replace(_, _, _)
Replace(s, old, new) ==
    IF s = <<>> THEN <<>>
    ELSE (IF Head(s) = old THEN new ELSE <<Head(s)>>) \o Replace(Tail(s), old, new)

\* the same without the newline replacement
escape_quotes_only(context) == Replace(Replace(context, "'", <<>>), "\"", <<>>)

\* line 122: context.replace("'", "").replace('"', "").replace("\n", " ")
escape(context) ==
    Replace(Replace(Replace(context, "'", <<>>), "\"", <<>>), "\n", <<" ">>)

\* the three literal parts of the f-string of lines 123-133
TemplateHead == "<instructions> QUESTION: '"
TemplateMiddle == "' CONTEXT: '"
TemplateTail == "' ANSWER:"

\* lines 121-133
generate_rag_prompt(query, context) ==
    <<TemplateHead>> \o query \o <<TemplateMiddle>> \o escape(context) \o <<TemplateTail>>

\* "\n".join(parts)
RECURSIVE Join(_)
Join(parts) ==
    IF parts = <<>> THEN <<>>
    ELSE IF Len(parts) = 1 THEN parts[1]
    ELSE parts[1] \o <<"\n">> \o Join(Tail(parts))

\* ----------------------------------------------------------- upload_files
\* the calls made for one file, in program order (lines 152-161, 103-115)
Steps == <<"read", "mktemp", "write", "upload_to_gcs",
           "get_file_loader", "load", "split", "add_documents">>
StepNames == {Steps[i] : i \in 1..Len(Steps)}

\* the calls to a collaborator, which may raise whatever their arguments
FailPoints == StepNames \ {"get_file_loader"}

\* str(e) of the exception a failing step raises
Message(step) == IF step = "get_file_loader" THEN "Unsupported file format" ELSE step
\* position of a step in program order; "none" (no failure) comes after all
Pos(step) ==
    IF step = "none" THEN Len(Steps) + 1
    ELSE CHOOSE i \in 1..Len(Steps) : Steps[i] = step

\* the step was called / returned normally, when the first failure is failAt
Reached(step, failAt) == Pos(step) <= Pos(failAt)
Succeeded(step, failAt) == Pos(step) < Pos(failAt)

\* line 153: the name NamedTemporaryFile(delete=False, suffix=ext) picks
TmpName(id, ext) == <<"/","t","m","p","/","t","m","p", ToString(id)>> \o ext

\* line 157: f"documents/{uuid.uuid4()}/{file.filename}"
GcsPath(id, filename) == [dir |-> "documents", uuid |-> id, filename |-> filename]

\* line 76: blob.public_url
PublicUrl(path) == [host |-> "https://storage.googleapis.com", path |-> path]

\* the blob is uploaded only after the file has been processed
BlobStoredLate(failAt) == failAt = "none"

\* lines 158-161: the blob is in the bucket once upload_to_gcs has returned
BlobStored(failAt) == Succeeded("upload_to_gcs", failAt)

\* the documents are in the store once add_documents has returned (line 115)
DocsStored(failAt) == Succeeded("add_documents", failAt)

\* lines 153-168: the temp file exists from NamedTemporaryFile on and is
\* removed by os.unlink, which only the normal path reaches
TmpCreated(failAt) == Succeeded("mktemp", failAt)
TmpLeft(failAt) == TmpCreated(failAt) /\ failAt # "none"

\* the log of the calls made for file i
FileCalls(i, n, failAt) ==
    LET made == SelectSeq(Steps, LAMBDA st : Reached(st, failAt))
    IN  [k \in 1..Len(made) |->
            Call(made[k], [file |-> i,
                           n |-> IF made[k] \in {"split", "add_documents"} THEN n ELSE 0,
                           ok |-> Succeeded(made[k], failAt)])]

\* the first step that raises: get_file_loader raises by itself, on a path
\* whose extension is not a key of SUPPORTED_FORMATS (lines 68-70)
FirstFailure(file_path, fail) ==
    IF Pos("get_file_loader") < Pos(fail) /\ get_file_loader(file_path).raised
    THEN "get_file_loader"
    ELSE fail

\* lines 117-118: process_file turns every exception into an HTTPException
process_file_error(failAt) ==
    HTTPException(StatusError, <<"Error processing file: ", Message(failAt)>>)

\* str(e) of the exception that reaches line 175 when the first failure is failAt
RaisedStr(failAt) ==
    IF failAt \in {"get_file_loader", "load", "split", "add_documents"}
    THEN StrHTTPException(process_file_error(failAt))
    ELSE <<Message(failAt)>>

\* the error is swallowed and reported as a success
upload_except_swallow(e) ==
    JSONResponse([status |-> "success", processed_files |-> <<>>, total_chunks |-> 0])

\* lines 175-176
upload_except(e) == HTTPException(StatusError, <<"Error processing upload: ">> \o e)

\* lines 170-174
upload_success(processed, total) ==
    JSONResponse([status |-> "success", processed_files |-> processed,
                  total_chunks |-> total])

\* case-sensitive variant of the test of lines 148-149
IsSupportedCaseSensitive(filename) == splitext(filename)[2] \in SUPPORTED_FORMATS

\* lines 148-149
IsSupported(filename) == ExtOf(filename) \in SUPPORTED_FORMATS

\* lines 147-150: the first file at or after i that is not skipped
RECURSIVE NextSupported(_, _)
NextSupported(files, i) ==
    IF i > Len(files) THEN i
    ELSE IF IsSupported(files[i]) THEN i
    ELSE NextSupported(files, i + 1)

\* a variable that is one module-level object shared by all requests
SetShared(f, r, v) == [q \in DOMAIN f |-> v]

\* assignment to a local variable of request r's handler invocation
SetLocal(f, r, v) == [f EXCEPT ![r] = v]

\* total_chunks = num_chunks
Overwrite(total, n) == n

\* line 162: total_chunks += num_chunks
Accumulate(total, n) == total + n

\* a document in the vector store: its source file and its position in it
Doc(source, j) == [source |-> source, i |-> j]

\* lines 140-152: from the start of upload_files to the first `await file.read()`.
\* initialize_vectorstore() is called before the try block.
UploadBegin(r) ==
    /\ pc[r] = "received"
    /\ rq[r].kind = "upload"
    /\ \E vsok \in BOOLEAN :
         LET files == rq[r].files
             j == NextSupported(files, 1)
             tc == SetLocal(total_chunks, r, 0)
             pf == SetLocal(processed_files, r, <<>>)
         IN  /\ calls' = [calls EXCEPT ![r] =
                    Append(@, Call("initialize_vectorstore",
                                   [file |-> 0, n |-> 0, ok |-> vsok]))]
             /\ IF ~vsok
                THEN /\ response' = [response EXCEPT ![r] = Append(@, Unhandled)]
                     /\ pc' = [pc EXCEPT ![r] = "done"]
                     /\ UNCHANGED <<idx, total_chunks, processed_files>>
                ELSE /\ total_chunks' = tc
                     /\ processed_files' = pf
                     /\ IF j > Len(files)
                        THEN /\ response' = [response EXCEPT ![r] =
                                    Append(@, upload_success(pf[r], tc[r]))]
                             /\ pc' = [pc EXCEPT ![r] = "done"]
                             /\ UNCHANGED idx
                        ELSE /\ idx' = [idx EXCEPT ![r] = j]
                             /\ pc' = [pc EXCEPT ![r] = "reading"]
                             /\ UNCHANGED response
    /\ UNCHANGED <<env, mainpc, clients, rq, created, tmpfs, blobs, chunks, fresh>>
    /\ UNCHANGED pvars

\* lines 152-176: from the return of `await file.read()` for file idx[r] to
\* the next `await file.read()`, the return or the except clause
UploadResume(r) ==
    /\ pc[r] = "reading"
    /\ \E fail \in FailPoints \cup {"none"}, n \in 0..MaxChunks :
         LET files == rq[r].files
             i == idx[r]
             file == files[i]
             ext == ExtOf(file)
             tmp == TmpName(fresh, ext)
             failAt == FirstFailure(tmp, fail)
             gcs_path == GcsPath(fresh, file)
             entry == [filename |-> file, chunks_created |-> n,
                       gcs_url |-> PublicUrl(gcs_path)]
             tc == SetLocal(total_chunks, r, Accumulate(total_chunks[r], n))
             pf == SetLocal(processed_files, r, Append(processed_files[r], entry))
             j == NextSupported(files, i + 1)
         IN  /\ Succeeded("split", failAt) \/ n = 0
             /\ calls' = [calls EXCEPT ![r] = @ \o FileCalls(i, n, failAt)]
             /\ fresh' = IF TmpCreated(failAt) THEN fresh + 1 ELSE fresh
             /\ created' = IF TmpCreated(failAt)
                           THEN [created EXCEPT ![r] = @ \cup {tmp}] ELSE created
             /\ tmpfs' = IF TmpLeft(failAt) THEN tmpfs \cup {tmp} ELSE tmpfs
             /\ blobs' = IF BlobStored(failAt) THEN blobs \cup {gcs_path} ELSE blobs
             /\ chunks' = IF DocsStored(failAt)
                          THEN chunks \cup {Doc(tmp, k) : k \in 1..n} ELSE chunks
             /\ IF failAt = "none"
                THEN /\ total_chunks' = tc
                     /\ processed_files' = pf
                     /\ IF j > Len(files)
                        THEN /\ response' = [response EXCEPT ![r] =
                                    Append(@, upload_success(pf[r], tc[r]))]
                             /\ pc' = [pc EXCEPT ![r] = "done"]
                             /\ UNCHANGED idx
                        ELSE /\ idx' = [idx EXCEPT ![r] = j]
                             /\ UNCHANGED <<pc, response>>
                ELSE /\ response' = [response EXCEPT ![r] =
                            Append(@, upload_except(RaisedStr(failAt)))]
                     /\ pc' = [pc EXCEPT ![r] = "done"]
                     /\ UNCHANGED <<idx, total_chunks, processed_files>>
    /\ UNCHANGED <<env, mainpc, clients, rq>>
    /\ UNCHANGED pvars

\* ----------------------------------------------------------- ask_question
AskSteps == <<"initialize_vectorstore", "similarity_search", "generate_content">>
AskPos(step) ==
    IF step = "none" THEN Len(AskSteps) + 1
    ELSE CHOOSE i \in 1..Len(AskSteps) : AskSteps[i] = step
AskReached(step, failAt) == AskPos(step) <= AskPos(failAt)
AskSucceeded(step, failAt) == AskPos(step) < AskPos(failAt)

\* doc.page_content of a stored document
PageContent == <<"c", "\"">>

\* fewer results are requested
SearchKSmall == SearchK - 2

\* line 182: the k passed to similarity_search
similarity_search_k == SearchK

\* the log of the calls of one ask_question
AskCalls(question, nres, prompt, text, failAt) ==
    LET all == <<Call("initialize_vectorstore",
                      [ok |-> AskSucceeded("initialize_vectorstore", failAt)]),
                 Call("similarity_search",
                      [query |-> question, k |-> similarity_search_k, returned |-> nres,
                       ok |-> AskSucceeded("similarity_search", failAt)]),
                 Call("generate_content",
                      [prompt |-> prompt, text |-> text,
                       ok |-> AskSucceeded("generate_content", failAt)])>>
    IN  SelectSeq(all, LAMBDA c : AskReached(c.op, failAt))

\* lines 193-194
ask_except(e) == HTTPException(StatusError, <<"Error processing question: ">> \o e)

\* lines 178-194: the handler has no await and runs in one piece
ask_question(r) ==
    /\ pc[r] = "received"
    /\ rq[r].kind = "ask"
    /\ \E failAt \in {AskSteps[i] : i \in 1..Len(AskSteps)} \cup {"none"},
          nres \in 0..Min(similarity_search_k, Cardinality(chunks)),
          text \in Answers :
         LET question == rq[r].question
             results == [k \in 1..nres |-> PageContent]
             context == Join(results)
             prompt == generate_rag_prompt(question, context)
         IN  /\ AskSucceeded("similarity_search", failAt) \/ nres = 0
             /\ failAt = "none" \/ text = "answer-1"
             /\ calls' = [calls EXCEPT ![r] =
                    @ \o AskCalls(question, nres, prompt, text, failAt)]
             /\ response' = [response EXCEPT ![r] = Append(@,
                    IF failAt = "none"
                    THEN JSONResponse([question |-> question, answer |-> text])
                    ELSE ask_except(<<Message(failAt)>>))]
    /\ pc' = [pc EXCEPT ![r] = "done"]
    /\ UNCHANGED <<env, mainpc, clients, rq, idx, total_chunks, processed_files,
                   created, tmpfs, blobs, chunks, fresh>>
    /\ UNCHANGED pvars

\* ------------------------------------------------------------ the system
OldDocs(n) == {Doc(<<"o","l","d">>, k) : k \in 1..n}

Init ==
    /\ env \in [{"GEMINI_API_KEY", "GCS_BUCKET_NAME", "DATABASE_URL"} -> EnvValues]
    /\ mainpc = "start"
    /\ clients = {}
    /\ rq = [r \in Reqs |-> NoReq]
    /\ pc = [r \in Reqs |-> "idle"]
    /\ idx = [r \in Reqs |-> 0]
    /\ total_chunks = [r \in Reqs |-> 0]
    /\ processed_files = [r \in Reqs |-> <<>>]
    /\ response = [r \in Reqs |-> <<>>]
    /\ calls = [r \in Reqs |-> <<>>]
    /\ created = [r \in Reqs |-> {}]
    /\ tmpfs = {}
    /\ blobs = {}
    /\ chunks \in {OldDocs(0), OldDocs(PreChunks)}
    /\ fresh = 1
    /\ p_query = <<>>
    /\ p_context = <<>>
    /\ p_prompt = <<>>
    /\ p_pc = "unused"

Next ==
    \/ CheckConfig
    \/ InitServices
    \/ LoadSpacyAndServe
    \/ \E r \in Reqs : Receive(r)
    \/ \E r \in Reqs : root(r)
    \/ \E r \in Reqs : UploadBegin(r)
    \/ \E r \in Reqs : UploadResume(r)
    \/ \E r \in Reqs : ask_question(r)

Spec == Init /\ [][Next]_vars

\* ------------------------------------------- one upload, every batch
InitUpload ==
    /\ env = [k \in {"GEMINI_API_KEY", "GCS_BUCKET_NAME", "DATABASE_URL"} |-> "set"]
    /\ mainpc = "serving"
    /\ clients = {"genai", "storage_client", "bucket", "nlp", "app"}
    /\ rq = [r \in Reqs |-> NoReq]
    /\ pc = [r \in Reqs |-> "idle"]
    /\ idx = [r \in Reqs |-> 0]
    /\ total_chunks = [r \in Reqs |-> 0]
    /\ processed_files = [r \in Reqs |-> <<>>]
    /\ response = [r \in Reqs |-> <<>>]
    /\ calls = [r \in Reqs |-> <<>>]
    /\ created = [r \in Reqs |-> {}]
    /\ tmpfs = {}
    /\ blobs = {}
    /\ chunks = {}
    /\ fresh = 1
    /\ p_query = <<>>
    /\ p_context = <<>>
    /\ p_prompt = <<>>
    /\ p_pc = "unused"

ReceiveUpload == Accept(1, UploadRequests)

NextUpload ==
    \/ ReceiveUpload
    \/ UploadBegin(1)
    \/ UploadResume(1)

SpecUpload == InitUpload /\ [][NextUpload]_vars

\* -------------------------------------- generate_rag_prompt on its own
Alphabet == {"a", " ", "'", "\"", "\n"}

\* He said "hi"\nBye'
ExampleContext ==
    <<"H","e"," ","s","a","i","d"," ","\"","h","i","\"","\n","B","y","e","'">>

Contexts == SeqsUpTo(Alphabet, MaxLen) \cup {ExampleContext}

InitPrompt ==
    /\ env = [k \in {"GEMINI_API_KEY", "GCS_BUCKET_NAME", "DATABASE_URL"} |-> "set"]
    /\ mainpc = "serving"
    /\ clients = {"genai", "storage_client", "bucket", "nlp", "app"}
    /\ rq = [r \in Reqs |-> NoReq]
    /\ pc = [r \in Reqs |-> "idle"]
    /\ idx = [r \in Reqs |-> 0]
    /\ total_chunks = [r \in Reqs |-> 0]
    /\ processed_files = [r \in Reqs |-> <<>>]
    /\ response = [r \in Reqs |-> <<>>]
    /\ calls = [r \in Reqs |-> <<>>]
    /\ created = [r \in Reqs |-> {}]
    /\ tmpfs = {}
    /\ blobs = {}
    /\ chunks = {}
    /\ fresh = 1
    /\ p_query \in Questions
    /\ p_context \in Contexts
    /\ p_prompt = <<>>
    /\ p_pc = "call"

\* one call of generate_rag_prompt(p_query, p_context)
GenerateRagPrompt ==
    /\ p_pc = "call"
    /\ p_prompt' = generate_rag_prompt(p_query, p_context)
    /\ p_pc' = "returned"
    /\ UNCHANGED <<p_query, p_context>>
    /\ UNCHANGED sysvars

NextPrompt == GenerateRagPrompt

SpecPrompt == InitPrompt /\ [][NextPrompt]_vars

\* ================================================================ claims
RECURSIVE SumSeq(_)
SumSeq(q) == IF q = <<>> THEN 0 ELSE Head(q) + SumSeq(Tail(q))

IsUpload(r) == rq[r].kind = "upload"
IsAsk(r) == rq[r].kind = "ask"
Done(r) == pc[r] = "done"

\* the calls of request r to one operation, in the order made
CallsTo(r, ops) == SelectSeq(calls[r], LAMBDA c : c.op \in ops)
FailedCalls(r, ops) == SelectSeq(calls[r], LAMBDA c : c.op \in ops /\ ~c.arg.ok)
AllOps == StepNames \cup {"initialize_vectorstore", "similarity_search", "generate_content"}

\* the request ended with the handler's normal return
Succeeded200(r) ==
    /\ Done(r)
    /\ Len(response[r]) = 1
    /\ response[r][1].status = 200

\* an extension as the specification lists it, compared without regard to case
EqIgnoreCase(a, b) ==
    /\ Len(a) = Len(b)
    /\ \A i \in 1..Len(a) : LowerChar(a[i]) = LowerChar(b[i])
ListedExtension(name) ==
    \E e \in SUPPORTED_FORMATS : EqIgnoreCase(splitext(name)[2], e)

\* ---------------------------------------------------------------- C1
\* C1: when an upload request has completed, none of the temporary files it
\* created exists any more, whether it succeeded or failed.
C1_TempFilesRemoved ==
    \A r \in Reqs : (IsUpload(r) /\ Done(r)) => created[r] \cap tmpfs = {}

\* ---------------------------------------------------------------- C2
\* C2: when a per-file step of an upload fails, the request ends with exactly
\* one response, a 500 error and not a success listing; the failing call is
\* the last call the request makes, and no step is made twice for a file.
C2_AllOrNothing ==
    \A r \in Reqs : IsUpload(r) =>
        /\ \A k1, k2 \in 1..Len(calls[r]) :
              (k1 < k2 /\ calls[r][k1].op = calls[r][k2].op)
                  => calls[r][k1].arg.file < calls[r][k2].arg.file
        /\ FailedCalls(r, StepNames) # <<>> =>
              /\ Done(r)
              /\ Len(response[r]) = 1
              /\ response[r][1].status = 500
              /\ response[r][1].kind = "detail"
              /\ ~calls[r][Len(calls[r])].arg.ok
              /\ Len(FailedCalls(r, StepNames)) = 1

\* an upload whose second processed file failed after the first succeeded
C2_Witness ==
    \E r \in Reqs :
        /\ IsUpload(r) /\ Done(r)
        /\ Len(processed_files[r]) >= 1
        /\ FailedCalls(r, {"add_documents"}) # <<>>
        /\ idx[r] < Len(rq[r].files)

\* ---------------------------------------------------------------- C3
\* C3: a request in which any call failed is answered with status 500 and a
\* body {"detail": message} whose message carries the failure's message.
C3_FailureAnsweredWithDetail ==
    \A r \in Reqs : (Done(r) /\ FailedCalls(r, AllOps) # <<>>) =>
        /\ Len(response[r]) = 1
        /\ response[r][1].status = 500
        /\ response[r][1].kind = "detail"
        /\ \E i \in 1..Len(response[r][1].detail) :
              response[r][1].detail[i] = Message(FailedCalls(r, AllOps)[1].op)

\* ---------------------------------------------------------------- C4
\* C4: in an upload in which no step fails, the files without a listed
\* extension are skipped: no call is made, no temp file and no blob is
\* created for them, and processed_files has exactly one entry per file with
\* a listed extension, in the order given (an empty list, with total_chunks
\* 0, when there is none).
C4_SkipUnsupported ==
    /\ \A b \in blobs : ListedExtension(b.filename)
    /\ \A r \in Reqs : IsUpload(r) =>
          /\ \A k \in 1..Len(calls[r]) :
                calls[r][k].op \in StepNames
                    => ListedExtension(rq[r].files[calls[r][k].arg.file])
          /\ (Done(r) /\ FailedCalls(r, AllOps) = <<>>) =>
                LET sup == SelectSeq(rq[r].files, ListedExtension)
                    body == response[r][1].body
                IN  /\ Succeeded200(r)
                    /\ body.status = "success"
                    /\ [k \in 1..Len(body.processed_files) |->
                           body.processed_files[k].filename] = sup
                    /\ Cardinality(created[r]) = Len(sup)
                    /\ sup = <<>> => (body.processed_files = <<>> /\ body.total_chunks = 0)

\* a successful batch with a mixed-case supported file and a skipped file
C4_Witness ==
    \E r \in Reqs :
        /\ IsUpload(r) /\ Succeeded200(r)
        /\ Len(response[r][1].body.processed_files) >= 1
        /\ Len(response[r][1].body.processed_files) < Len(rq[r].files)
        /\ \E k \in 1..Len(response[r][1].body.processed_files) :
              response[r][1].body.processed_files[k].filename = <<"b",".","P","d","F">>

\* ---------------------------------------------------------------- C5
\* C5: while an upload runs, total_chunks is the sum of chunks_created over
\* the entries appended so far; in a successful response total_chunks is
\* that sum, and each chunks_created is the number of chunks the splitter
\* returned for the file and add_documents stored.
C5_TotalIsSum ==
    \A r \in Reqs : IsUpload(r) =>
        LET counts(pf) == [k \in 1..Len(pf) |-> pf[k].chunks_created]
            split == CallsTo(r, {"split"})
            added == SelectSeq(calls[r], LAMBDA c : c.op = "add_documents" /\ c.arg.ok)
        IN  /\ total_chunks[r] = SumSeq(counts(processed_files[r]))
            /\ counts(processed_files[r]) = [k \in 1..Len(added) |-> added[k].arg.n]
            /\ \A k \in 1..Len(added) : split[k].arg.n = added[k].arg.n
            /\ Cardinality(chunks) = SumSeq([k \in 1..Len(added) |-> added[k].arg.n])
            /\ Succeeded200(r) =>
                  /\ response[r][1].body.processed_files = processed_files[r]
                  /\ response[r][1].body.total_chunks
                        = SumSeq(counts(response[r][1].body.processed_files))

\* a successful upload of several files that all produced chunks
C5_Witness ==
    \E r \in Reqs :
        /\ IsUpload(r) /\ Succeeded200(r)
        /\ Len(response[r][1].body.processed_files) >= 2
        /\ \A k \in 1..Len(response[r][1].body.processed_files) :
              response[r][1].body.processed_files[k].chunks_created >= 1
        /\ response[r][1].body.total_chunks >= 3

\* ---------------------------------------------------------------- C6
\* the parts of a rendered prompt between the literal parts of the template
IndexOf(q, x) == CHOOSE i \in 1..Len(q) : q[i] = x
QuestionFragment(prompt) == SubSeq(prompt, 2, IndexOf(prompt, TemplateMiddle) - 1)
ContextFragment(prompt) ==
    SubSeq(prompt, IndexOf(prompt, TemplateMiddle) + 1, Len(prompt) - 1)

\* He said hi Bye
ExampleFragment == <<"H","e"," ","s","a","i","d"," ","h","i"," ","B","y","e">>

\* C6: the context fragment of the prompt contains no single quote, double
\* quote or newline; every other character of the context is kept, in its
\* original order (the quotes are dropped and each newline's place is taken
\* by one space); the context `He said "hi"\nBye'` is rendered as
\* `He said hi Bye`; the question is substituted unchanged.
C6_ContextSanitised ==
    p_pc = "returned" =>
        LET frag == ContextFragment(p_prompt)
            unquoted == SelectSeq(p_context, LAMBDA c : c \notin {"'", "\""})
        IN  /\ \A i \in 1..Len(frag) : frag[i] \notin {"'", "\"", "\n"}
            /\ Len(frag) = Len(unquoted)
            /\ \A i \in 1..Len(unquoted) :
                  frag[i] = IF unquoted[i] = "\n" THEN " " ELSE unquoted[i]
            /\ p_context = ExampleContext => frag = ExampleFragment
            /\ QuestionFragment(p_prompt) = p_query

\* the prompt of the example context has been rendered
C6_Witness ==
    /\ p_pc = "returned"
    /\ p_context = ExampleContext
    /\ \E i \in 1..Len(p_query) : p_query[i] = "'"

\* ---------------------------------------------------------------- C7
\* C7: an ask request never searches or generates more than once; when no
\* call fails it makes exactly one similarity search, with k = 6 and the
\* question as query, then exactly one generate call, and answers 200 with
\* the original question and that call's text; when the search returned no
\* chunk the context of the prompt is empty and the model is still called.
C7_OneSearchOneGenerate ==
    \A r \in Reqs : IsAsk(r) =>
        LET search == CallsTo(r, {"similarity_search"})
            gen == CallsTo(r, {"generate_content"})
        IN  /\ Len(search) <= 1
            /\ Len(gen) <= 1
            /\ (Done(r) /\ FailedCalls(r, AllOps) = <<>>) =>
                  /\ Len(calls[r]) = 3
                  /\ calls[r][2].op = "similarity_search"
                  /\ calls[r][2].arg.k = 6
                  /\ calls[r][2].arg.query = rq[r].question
                  /\ calls[r][2].arg.returned <= 6
                  /\ calls[r][3].op = "generate_content"
                  /\ QuestionFragment(calls[r][3].arg.prompt) = rq[r].question
                  /\ calls[r][2].arg.returned = 0
                        => ContextFragment(calls[r][3].arg.prompt) = <<>>
                  /\ response[r] = <<JSONResponse([question |-> rq[r].question,
                                                   answer |-> calls[r][3].arg.text])>>

\* one answered question whose search returned nothing from a store that
\* holds documents, and one whose search returned six
C7_Witness ==
    \E r1, r2 \in Reqs :
        /\ IsAsk(r1) /\ Succeeded200(r1)
        /\ calls[r1][2].arg.returned = 0
        /\ chunks # {}
        /\ IsAsk(r2) /\ Succeeded200(r2)
        /\ calls[r2][2].arg.returned = 6

\* ---------------------------------------------------------------- C8
\* C8: in a process where one of the three required settings is absent or
\* empty, the start-up never gets past the configuration check: no client is
\* initialised, no request is received and no response is sent.
C8_NoServiceWithoutConfig ==
    (\E k \in DOMAIN env : env[k] \in {NoneVal, ""}) =>
        /\ mainpc \in {"start", "failed"}
        /\ clients = {}
        /\ \A r \in Reqs : pc[r] = "idle" /\ response[r] = <<>> /\ calls[r] = <<>>

\* start-up has failed on an empty (not absent) bucket name
C8_Witness ==
    /\ mainpc = "failed"
    /\ env.GCS_BUCKET_NAME = ""
    /\ env.GEMINI_API_KEY = "set"
    /\ env.DATABASE_URL = "set"

\* ---------------------------------------------------------------- C9
\* the handler-local state of request r
Local(r) == <<rq[r], pc[r], idx[r], total_chunks[r], processed_files[r],
              response[r], calls[r], created[r]>>

\* every successful upload response lists the request's own supported files
\* and the chunks its own add_documents calls stored
C9_OwnFilesOnly ==
    \A r \in Reqs : (IsUpload(r) /\ Succeeded200(r)) =>
        LET body == response[r][1].body
            added == CallsTo(r, {"add_documents"})
        IN  /\ [k \in 1..Len(body.processed_files) |-> body.processed_files[k].filename]
                  = SelectSeq(rq[r].files, ListedExtension)
            /\ [k \in 1..Len(body.processed_files) |->
                   body.processed_files[k].chunks_created]
                  = [k \in 1..Len(added) |-> added[k].arg.n]
            /\ body.total_chunks = SumSeq([k \in 1..Len(added) |-> added[k].arg.n])

\* C9: under every interleaving of the requests, each upload response's
\* processed_files and total_chunks reflect only that request's own files,
\* and a step of one request changes the handler-local state of no other.
C9_NoSharedState ==
    /\ []C9_OwnFilesOnly
    /\ [][\A r1, r2 \in Reqs :
             (Local(r1)' # Local(r1) /\ Local(r2)' # Local(r2)) => r1 = r2]_vars

\* two successful uploads whose files were processed alternately
C9_Witness ==
    \E r1, r2 \in Reqs :
        /\ r1 # r2
        /\ IsUpload(r1) /\ Succeeded200(r1)
        /\ IsUpload(r2) /\ Succeeded200(r2)
        /\ Len(processed_files[r1]) = 2
        /\ Len(processed_files[r2]) >= 1
        /\ processed_files[r1][1].gcs_url.path.uuid < processed_files[r2][1].gcs_url.path.uuid
        /\ processed_files[r2][1].gcs_url.path.uuid < processed_files[r1][2].gcs_url.path.uuid
        /\ response[r1][1].body.total_chunks # response[r2][1].body.total_chunks

\* --------------------------------------------------------------- C10
AllCalls(ops) ==
    LET both == calls[1] \o calls[2]
    IN  SelectSeq(both, LAMBDA c : c.op \in ops /\ c.arg.ok)

\* every blob whose upload returned and every chunk whose insertion returned
\* is stored, also after the request that wrote it has failed; for each file
\* the blob upload precedes the extraction
C10_WritesKept ==
    /\ Cardinality(blobs) = Len(AllCalls({"upload_to_gcs"}))
    /\ Cardinality({c \in chunks : c.source # <<"o","l","d">>})
          = SumSeq([k \in 1..Len(AllCalls({"add_documents"})) |->
                       AllCalls({"add_documents"})[k].arg.n])
    /\ \A r \in Reqs : IsUpload(r) =>
          \A k \in 1..Len(calls[r]) :
              calls[r][k].op = "load" =>
                  /\ \E j \in 1..(k-1) :
                        /\ calls[r][j].op = "upload_to_gcs"
                        /\ calls[r][j].arg.file = calls[r][k].arg.file
                        /\ calls[r][j].arg.ok
                  /\ \E b \in blobs : b.filename = rq[r].files[calls[r][k].arg.file]

\* C10: nothing written to the external stores is undone: the blob of a file
\* is stored before its extraction starts, the blobs and chunks written
\* before a failure stay stored although the response is a 500, and over any
\* sequence of steps the sets of stored blobs and chunks only grow.
C10_StoresOnlyGrow ==
    /\ []C10_WritesKept
    /\ [][blobs \subseteq blobs' /\ chunks \subseteq chunks']_vars

\* an upload that failed in the extraction of its second file, after the
\* first file's chunks and both blobs had been stored
C10_Witness ==
    \E r \in Reqs :
        /\ IsUpload(r) /\ Done(r)
        /\ response[r][1].status = 500
        /\ FailedCalls(r, {"load"}) # <<>>
        /\ Len(processed_files[r]) = 1
        /\ processed_files[r][1].chunks_created >= 1
        /\ Cardinality(blobs) = 2
        /\ Cardinality({c \in chunks : c.source # <<"o","l","d">>}) >= 1

====
